---- MODULE Spec2Model ----
(***************************************************************************)
(* Model of the two "paster" programs: paster_parallel.c (a pool of        *)
(* num_threads blocking fetchers sharing received_fragments and            *)
(* output_buffer) and paster_nbio.c (one thread driving num_threads        *)
(* non-blocking transfers through the curl multi interface).               *)
(*                                                                         *)
(* The compile-time sizes of the programs (N = 20, WIDTH = 4000,           *)
(* HEIGHT = 3000, BUF_SIZE = 10485760) are scaled down; as in the source,  *)
(* N divides WIDTH.  A PNG body is abstracted to a byte sequence whose     *)
(* first byte carries the identity of the encoded fragment (f + 1, 0 for   *)
(* anything that is no PNG) and whose remaining bytes are 0; decoding      *)
(* consumes the first byte through read_cb.                                *)
(***************************************************************************)
EXTENDS Integers, Sequences, FiniteSets, TLC

(* ------------------------------------------------------------------ *)
(* Sizes.                                                             *)
(* ------------------------------------------------------------------ *)
N == 2
FragWidth == 2
HEIGHT == 2
WIDTH == N * FragWidth
BUF_SIZE == 3
MaxThreads == 2
\* the environment: at most MaxFaults ill-formed responses per run, at most
\* MaxBody body bytes per response
MaxFaults == 1
MaxBody == 4
\* paint_destination as a function of its inputs is explored for widths and
\* fragment counts up to these
MaxPureW == 5
MaxPureN == 3
\* paint_destination is explored for vertical offsets y0 up to MaxY0
MaxY0 == 1
\* the command lines tried carry at most MaxArgs options
MaxArgs == 2

Frags == 0 .. (N - 1)
NoRows == -1
NoThread == 0

(* ------------------------------------------------------------------ *)
(* C arithmetic and the macros.                                       *)
(* ------------------------------------------------------------------ *)
\* int division truncates toward zero (b > 0)
CDiv(a, b) == IF a >= 0 THEN a \div b ELSE -((-a) \div b)

\* "#define BUF_WIDTH WIDTH/N" is substituted textually:
\*   x<BUF_WIDTH     is  x < WIDTH/N
\*   hd.n*BUF_WIDTH  is  hd.n*WIDTH/N, that is (hd.n*WIDTH)/N
BUF_WIDTH(W, Nn) == CDiv(W, Nn)
XOffset(W, Nn, n) == CDiv(n * W, Nn)

(* ------------------------------------------------------------------ *)
(* header_cb: the header line and atoi.                               *)
(* ------------------------------------------------------------------ *)
ECE459_HEADER == "X-Ece459-Fragment: "
DigitVal(c) == CASE c = "0" -> 0 [] c = "1" -> 1 [] c = "2" -> 2 [] c = "3" -> 3
                 [] OTHER -> -1
IsDigit(c) == DigitVal(c) >= 0

RECURSIVE AtoiDigits(_, _)
\* the digits at the head of s, accumulated into acc; stops at the first non-digit
AtoiDigits(s, acc) ==
  IF s = <<>> \/ ~IsDigit(Head(s)) THEN acc
  ELSE AtoiDigits(Tail(s), acc * 10 + DigitVal(Head(s)))

\* atoi: an optional sign, then digits; 0 when there is no digit
Atoi(s) ==
  IF s = <<>> THEN 0
  ELSE IF Head(s) = "-" THEN -AtoiDigits(Tail(s), 0)
  ELSE AtoiDigits(s, 0)

\* the decimal digit of a fragment index
DigitOf(f) == CASE f = 0 -> "0" [] f = 1 -> "1" [] f = 2 -> "2" [] OTHER -> "3"

\* the texts after the header name that responses carry: the index of a
\* fragment or the first index past them, then CR; nothing; CR alone; a negative
\* number; a number of two digits
HdrValues == {<<DigitOf(f), "\r">> : f \in 0 .. N}
               \cup {<<>>, <<"\r">>, <<"-", "1">>, <<"1", "0">>}
\* a header line is a name and the text after it; "Other: " stands for every
\* other header, and for a response without the fragment header
HdrLines == [name : {ECE459_HEADER}, value : HdrValues]
              \cup {[name |-> "Other: ", value |-> <<"0", "\r">>]}

\* the condition of header_cb: longer than the name, and starting with it
HeaderMatches(line) == line.name = ECE459_HEADER /\ Len(line.value) > 0

\* the protocol's line for fragment f: its decimal index, then CR LF
\* (atoi stops at the CR)
ProtocolLine(f) == [name |-> ECE459_HEADER, value |-> <<DigitOf(f), "\r">>]

(* ------------------------------------------------------------------ *)
(* Bodies, the fetch buffer, decoding.                                *)
(* ------------------------------------------------------------------ *)
\* byte p of a body encoding fragment f (f = -1: no PNG signature)
BodyByte(f, p) == IF p = 0 THEN f + 1 ELSE 0
BodySources == Frags \cup {-1}
PngLen == 2

BufIdx == 0 .. (BUF_SIZE - 1)
FreshBuf == [p \in BufIdx |-> 0]

\* decoded byte b of row y of fragment f (never 0, the calloc'ed canvas value)
PixelByte(f, y, b) == 1 + f * 1000 + y * 100 + b

(* ------------------------------------------------------------------ *)
(* paint_destination as a function of its inputs.                     *)
(* ------------------------------------------------------------------ *)
\* mutant: the index without the factor of 4 bytes per pixel
PaintIndexNoScale(W, x0, y0, x, y, i) == ((y0 + y) * W + (x0 + x)) + i

\* "int index = ((y0+y)*WIDTH+(x0+x))*4", then dest[index+i]
PaintIndex(W, x0, y0, x, y, i) == ((y0 + y) * W + (x0 + x)) * 4 + i

\* mutant: the loop over the rows has no "(y0+y) < HEIGHT"
PaintItersNoClip(W, Nn, H, y0) ==
  (0 .. (H - 1)) \X (0 .. (BUF_WIDTH(W, Nn) - 1)) \X (0 .. 3)

\* the iterations <<y, x, i>> of the three loops (BUF_HEIGHT is HEIGHT)
PaintIters(W, Nn, H, y0) ==
  {it \in (0 .. (H - 1)) \X (0 .. (BUF_WIDTH(W, Nn) - 1)) \X (0 .. 3) :
     y0 + it[1] < H}

\* the indices of dest the call writes
PaintIndices(W, Nn, H, x0, y0) ==
  {PaintIndex(W, x0, y0, it[2], it[1], it[3]) : it \in PaintIters(W, Nn, H, y0)}

\* the call writes outside dest (undefined behaviour)
PaintOutOfBounds(dest, W, Nn, H, x0, y0) ==
  \E d \in PaintIndices(W, Nn, H, x0, y0) : d \notin DOMAIN dest

\* mutant: the copy adds the bytes to what dest holds ("+=" for "=")
PaintAccumulate(dest, f, W, Nn, H, x0, y0) ==
  LET iters == PaintIters(W, Nn, H, y0)
      indices == PaintIndices(W, Nn, H, x0, y0)
  IN [d \in DOMAIN dest |->
        IF d \in indices
        THEN LET it == CHOOSE t \in iters :
                         PaintIndex(W, x0, y0, t[2], t[1], t[3]) = d
             IN dest[d] + PixelByte(f, it[1], it[2] * 4 + it[3])
        ELSE dest[d]]

\* dest after the call, for the writes that land inside it; f is the fragment
\* whose decoded rows row_pointers holds.  Two iterations never write the same
\* index: x*4+i is below 4*WIDTH
paint_destination(dest, f, W, Nn, H, x0, y0) ==
  LET iters == PaintIters(W, Nn, H, y0)
      indices == PaintIndices(W, Nn, H, x0, y0)
  IN [d \in DOMAIN dest |->
        IF d \in indices
        THEN LET it == CHOOSE t \in iters :
                         PaintIndex(W, x0, y0, t[2], t[1], t[3]) = d
             IN PixelByte(f, it[1], it[2] * 4 + it[3])
        ELSE dest[d]]

(* ------------------------------------------------------------------ *)
(* get_url.                                                           *)
(* ------------------------------------------------------------------ *)
\* the switch: which BASE_URL_<e> is printed for a counter value
UrlOf(c) == CASE c = 0 -> 1 [] c = 1 -> 2 [] OTHER -> 3
NextCounter(c) == (c + 1) % 3

(* ------------------------------------------------------------------ *)
(* State.                                                             *)
(* ------------------------------------------------------------------ *)
VARIABLES
  mode,                   \* "parallel": paster_parallel.c, "nbio": paster_nbio.c,
                          \* "pure": paint_destination and the tracker alone
  num_threads,            \* option -t
  run,                    \* "running", "aborted" (abort_ or a crash), "finalized"
  output,                 \* what write_png_file wrote: <<>> or the canvas
  received_fragments,     \* the tracker: [Frags -> BOOLEAN]
  output_buffer,          \* the canvas: [0 .. WIDTH*HEIGHT*4-1 -> byte]
  counter,                \* static counter of get_url
  get_url_lock, header_cb_lock, paint_destination_lock,   \* holder, or NoThread
  pc,                     \* per worker / context: where it stands
  bd,                     \* per worker / context: struct bufdata
  hd,                     \* per worker / context: hd.n
  row_pointers,           \* per worker: the fragment decoded, or NoRows
  chk,                    \* per worker: [i, received_all] of the final loop
  mpc, U, msgs,           \* nbio main: position, running handles, done queue
  urls,                   \* log: the endpoints get_url selected (see LogUrl)
  att,                    \* log, per worker / context: the response of the
                          \*   attempt in progress ("pending", "ok" or its defect)
  faults,                 \* log: the defects of the responses delivered so far
  budget,                 \* the environment: how many ill-formed responses or
                          \*   failed transfers it may deliver in this run
  painted,                \* log: the <<n, f>> composited so far (see LogPaint)
  outstanding,            \* the requests in progress: the curl_easy_perform calls
                          \*   that have not returned (paster_parallel.c), the
                          \*   easy handles added to curlm (paster_nbio.c)
  pure                    \* state of the pure-function specification

vars == <<mode, num_threads, run, output, received_fragments, output_buffer,
          counter, get_url_lock, header_cb_lock, paint_destination_lock,
          pc, bd, hd, row_pointers, chk, mpc, U, msgs,
          urls, att, faults, budget, painted, outstanding, pure>>

Threads == 1 .. num_threads
CanvasIdx == 0 .. (WIDTH * HEIGHT * 4 - 1)

\* an int that was never assigned holds anything; two representatives, one a
\* valid fragment index and one not
UninitInts == {0, N}

NoPure == [W |-> 0, N |-> 0]

InitShared ==
  /\ run = "running"
  /\ output = <<>>
  /\ received_fragments = [i \in Frags |-> FALSE]      \* calloc
  /\ output_buffer = [d \in CanvasIdx |-> 0]            \* calloc
  /\ counter = 0
  /\ get_url_lock = NoThread
  /\ header_cb_lock = NoThread
  /\ paint_destination_lock = NoThread
  /\ urls = [win |-> <<>>, cnt |-> [e \in 1 .. 3 |-> 0]]
  /\ faults = <<>>
  /\ painted = {}
  /\ outstanding = 0

\* mutant: a while loop, which tests the flags before the first attempt
LoopEntryTest == "check"

\* "do { ... } while (!received_all_fragments);": thread_function enters the
\* body, which starts with get_url, without a test
LoopEntry == "get_url"

\* paster_parallel.c: the state once main has created the threads; a thread
\* that main has not created yet is a thread that has not run yet
InitParallel ==
  /\ mode = "parallel"
  /\ num_threads \in 1 .. MaxThreads
  /\ InitShared
  /\ pc = [t \in Threads |-> LoopEntry]
  /\ bd = [t \in Threads |-> [buf |-> FreshBuf, len |-> 0, pos |-> 0, max_size |-> 0]]
  /\ hd \in [Threads -> UninitInts]                     \* struct headerdata hd;
  /\ row_pointers = [t \in Threads |-> NoRows]
  /\ chk = [t \in Threads |-> [i |-> 0, received_all |-> FALSE]]
  /\ att = [t \in Threads |-> "pending"]
  /\ mpc = "threads" /\ U = 0 /\ msgs = <<>>
  /\ pure = NoPure

(* ------------------------------------------------------------------ *)
(* Helpers shared by the two programs.                                *)
(* ------------------------------------------------------------------ *)
IsDefect(a) == a \notin {"pending", "ok"}

\* the log of a response found ill-formed: a response counts once, and the
\* environment delivers at most budget ill-formed responses
CanFault(t) == IsDefect(att[t]) \/ Len(faults) < budget
LogFault(t, kind) ==
  IF IsDefect(att[t]) THEN att' = att /\ faults' = faults
  ELSE att' = [att EXCEPT ![t] = kind] /\ faults' = Append(faults, kind)

\* the log of the composites of a run, kept while every response was
\* well-formed
LogPaint(n, f) == IF faults = <<>> THEN painted \cup {<<n, f>>} ELSE {}

\* what the header line is, against the protocol
HeaderKind(line) ==
  IF ~HeaderMatches(line) THEN "nohdr"
  ELSE IF \E f \in Frags : line = ProtocolLine(f) THEN "ok"
  ELSE IF Atoi(line.value) \notin Frags THEN "range"
  ELSE "malformed"

\* mutant: only max_size is set before a request, len and pos are left
ResetBufKeep(b) == [b EXCEPT !.max_size = BUF_SIZE]

\* "bd.len = bd.pos = 0; bd.max_size = BUF_SIZE"
ResetBuf(b) == [b EXCEPT !.len = 0, !.pos = 0, !.max_size = BUF_SIZE]

\* write_cb: the chunk is refused (return 0) when size*nmemb >= max_size
WriteRefused(b, size) == size >= b.max_size
\* memcpy(bd->buf+bd->pos, ptr, size*nmemb) leaves the buffer
WriteOverflows(b, size) == b.pos + size > BUF_SIZE
\* the buffer after the chunk of size bytes of a body encoding f; bytes that
\* fall outside buf are not in the model
write_cb(b, f, size) ==
  [b EXCEPT
     !.buf = [p \in BufIdx |->
                IF p >= b.pos /\ p < b.pos + size
                THEN BodyByte(f, b.len + (p - b.pos)) ELSE b.buf[p]],
     !.pos = b.pos + size,
     !.len = b.len + size]

\* read_png_file: png_sig_cmp on the buffer, then reads through read_cb, which
\* aborts when "bd->pos + byteCountToRead >= bd->len"
DecodeOk(b) == b.buf[0] - 1 \in Frags /\ 0 + 1 < b.len
Decoded(b) == b.buf[0] - 1

\* mutant: the store flips the flag
MarkToggle(flags, n) == [flags EXCEPT ![n] = ~@]

\* "hd->received_fragments[hd->n] = true" for an index inside the array
Mark(flags, n) == [flags EXCEPT ![n] = TRUE]

\* mutant: the loop assigns the local from each flag, so the last flag decides
LastReceived(flags) == flags[N - 1]

\* mutant: the loop starts from false and sets true on a received flag
AnyReceived(flags) == \E i \in Frags : flags[i]

\* "received_all_fragments = true; for (...) if (!received_fragments[i])
\* received_all_fragments = false;" run without interruption (paster_nbio.c)
AllReceived(flags) == \A i \in Frags : flags[i]

\* mutant: the handle of a harvested transfer stays in the multi handle
RemoveHandleNever(n) == n

\* the count of requests in progress: curl_multi_add_handle, or a call of
\* curl_easy_perform, adds one; curl_multi_remove_handle, or the return of
\* curl_easy_perform, takes one away
AddHandle(n) == n + 1
RemoveHandle(n) == n - 1

(* ------------------------------------------------------------------ *)
(* paster_parallel.c: thread_function, one action per step that        *)
(* touches shared state or waits.                                     *)
(* ------------------------------------------------------------------ *)
\* mutant: the mutex is never handed over
LockNeverFree(l) == FALSE

\* mutant: the mutex excludes nobody
LockAlwaysFree(l) == TRUE

\* pthread_mutex_lock returns when nobody holds the mutex
LockFree(l) == l = NoThread

\* mutant: the function returns without the unlock
UnlockSkipped(l, t) == l

\* pthread_mutex_unlock by thread t: the mutex it holds becomes free
Unlock(l, t) == IF l = t THEN NoThread ELSE l

Running(m) == mode = m /\ run = "running"

\* get_url: pthread_mutex_lock(&get_url_lock)
GetUrlLock(t) ==
  /\ Running("parallel") /\ pc[t] = "get_url"
  /\ LockFree(get_url_lock)
  /\ get_url_lock' = t
  /\ pc' = [pc EXCEPT ![t] = "get_url_switch"]
  /\ UNCHANGED <<mode, num_threads, run, output, received_fragments, output_buffer,
                 counter, header_cb_lock, paint_destination_lock, bd, hd,
                 row_pointers, chk, mpc, U, msgs, urls, att, faults, budget, outstanding, painted, pure>>

\* the log of the endpoints selected, in the order of the switch statements:
\* the last three selections, and how many times each endpoint was selected,
\* counted from the least selected one
LastThree(w) == IF Len(w) > 3 THEN Tail(w) ELSE w
FromLeast(c) ==
  LET least == CHOOSE m \in {c[e] : e \in 1 .. 3} : \A e \in 1 .. 3 : m <= c[e]
  IN [e \in 1 .. 3 |-> c[e] - least]
LogUrl(e) == [win |-> LastThree(Append(urls.win, e)),
              cnt |-> FromLeast([urls.cnt EXCEPT ![e] = @ + 1])]

\* get_url: switch (counter) { ... sprintf(*url, BASE_URL_<e>, img) ... }
GetUrlSwitch(t) ==
  /\ Running("parallel") /\ pc[t] = "get_url_switch"
  /\ urls' = LogUrl(UrlOf(counter))
  /\ pc' = [pc EXCEPT ![t] = "get_url_inc"]
  /\ UNCHANGED <<mode, num_threads, run, output, received_fragments, output_buffer,
                 counter, get_url_lock, header_cb_lock, paint_destination_lock, bd,
                 hd, row_pointers, chk, mpc, U, msgs, att, faults, budget, outstanding, painted, pure>>

\* get_url: counter = (counter + 1) % 3; unlock.  Then, in thread_function and
\* local to the thread: the URL option, png_create_read_struct, the buffer reset
GetUrlInc(t) ==
  /\ Running("parallel") /\ pc[t] = "get_url_inc"
  /\ counter' = NextCounter(counter)
  /\ get_url_lock' = Unlock(get_url_lock, t)
  /\ bd' = [bd EXCEPT ![t] = ResetBuf(bd[t])]
  /\ att' = [att EXCEPT ![t] = "pending"]
  /\ pc' = [pc EXCEPT ![t] = "perform"]
  /\ outstanding' = AddHandle(outstanding)
  /\ UNCHANGED <<mode, num_threads, run, output, received_fragments, output_buffer,
                 header_cb_lock, paint_destination_lock, hd, row_pointers, chk,
                 mpc, U, msgs, urls, faults, budget, painted, pure>>

\* curl_easy_perform, the headers: curl calls header_cb on each header line; the
\* one line that can match is drawn here.  header_cb assigns hd->n before it
\* takes the lock
RecvHeader(t, line) ==
  /\ Running("parallel") /\ pc[t] = "perform"
  /\ LET kind == HeaderKind(line) IN
       IF kind = "ok"
       THEN att' = [att EXCEPT ![t] = "ok"] /\ faults' = faults
       ELSE CanFault(t) /\ LogFault(t, kind)
  /\ IF HeaderMatches(line)
     THEN /\ hd' = [hd EXCEPT ![t] = Atoi(line.value)]
          /\ pc' = [pc EXCEPT ![t] = "header_cb"]
     ELSE /\ hd' = hd
          /\ pc' = [pc EXCEPT ![t] = "perform_body"]
  /\ UNCHANGED <<mode, num_threads, run, output, received_fragments, output_buffer,
                 counter, get_url_lock, header_cb_lock, paint_destination_lock, bd,
                 row_pointers, chk, mpc, U, msgs, urls, budget, outstanding, painted, pure>>

\* header_cb: pthread_mutex_lock(&header_cb_lock)
HeaderCbLock(t) ==
  /\ Running("parallel") /\ pc[t] = "header_cb"
  /\ LockFree(header_cb_lock)
  /\ header_cb_lock' = t
  /\ pc' = [pc EXCEPT ![t] = "header_cb_set"]
  /\ UNCHANGED <<mode, num_threads, run, output, received_fragments, output_buffer,
                 counter, get_url_lock, paint_destination_lock, bd, hd,
                 row_pointers, chk, mpc, U, msgs, urls, att, faults, budget, outstanding, painted, pure>>

\* header_cb: hd->received_fragments[hd->n] = true; unlock.  There is no range
\* check: for an index outside the array the store is undefined behaviour, which
\* either kills the process or lands outside the modelled state
HeaderCbSet(t) ==
  /\ Running("parallel") /\ pc[t] = "header_cb_set"
  /\ IF hd[t] \in Frags
     THEN /\ received_fragments' = Mark(received_fragments, hd[t])
          /\ run' = run
     ELSE /\ received_fragments' = received_fragments
          /\ \E crash \in BOOLEAN : run' = IF crash THEN "aborted" ELSE run
  /\ header_cb_lock' = Unlock(header_cb_lock, t)
  /\ pc' = [pc EXCEPT ![t] = "perform_body"]
  /\ UNCHANGED <<mode, num_threads, output, output_buffer, counter, get_url_lock,
                 paint_destination_lock, bd, hd, row_pointers, chk, mpc, U, msgs,
                 urls, att, faults, budget, outstanding, painted, pure>>

\* the defect, if any, that a chunk of size bytes of a body encoding f shows
ChunkDefect(t, f, size) ==
  IF WriteRefused(bd[t], size) \/ WriteOverflows(bd[t], size) THEN "overflow"
  ELSE IF bd[t].len = 0 /\ att[t] = "ok" /\ f # hd[t] THEN "body"
  ELSE "ok"

\* curl_easy_perform, the body: curl calls write_cb on a chunk.  A refused
\* chunk makes curl_easy_perform fail, and thread_function aborts
WriteCb(t, f, size) ==
  /\ Running("parallel") /\ pc[t] = "perform_body"
  /\ bd[t].len + size <= MaxBody
  /\ LET defect == ChunkDefect(t, f, size) IN
       IF defect = "ok" THEN att' = att /\ faults' = faults
       ELSE CanFault(t) /\ LogFault(t, defect)
  /\ IF WriteRefused(bd[t], size)
     THEN bd' = bd /\ run' = "aborted"
     ELSE /\ bd' = [bd EXCEPT ![t] = write_cb(bd[t], f, size)]
          /\ IF WriteOverflows(bd[t], size)
             THEN \E crash \in BOOLEAN : run' = IF crash THEN "aborted" ELSE run
             ELSE run' = run
  /\ UNCHANGED <<mode, num_threads, output, received_fragments, output_buffer,
                 counter, get_url_lock, header_cb_lock, paint_destination_lock,
                 pc, hd, row_pointers, chk, mpc, U, msgs, urls, budget, outstanding, painted, pure>>

\* curl_easy_perform returns res: an error at any point of the transfer
\* ("if(res != CURLE_OK) abort_(...)"), or CURLE_OK once the body is in
PerformReturn(t, ok) ==
  /\ Running("parallel")
  /\ IF ok
     THEN /\ pc[t] = "perform_body"
          /\ IF bd[t].len < PngLen
             THEN CanFault(t) /\ LogFault(t, "body")
             ELSE att' = att /\ faults' = faults
          /\ pc' = [pc EXCEPT ![t] = "read_png_file"]
          /\ run' = run
     ELSE /\ pc[t] \in {"perform", "perform_body"}
          /\ CanFault(t) /\ LogFault(t, "transport")
          /\ pc' = pc
          /\ run' = "aborted"
  /\ outstanding' = RemoveHandle(outstanding)
  /\ UNCHANGED <<mode, num_threads, output, received_fragments, output_buffer,
                 counter, get_url_lock, header_cb_lock, paint_destination_lock, bd,
                 hd, row_pointers, chk, mpc, U, msgs, urls, budget, painted, pure>>

\* read_png_file(png_ptr, &info_ptr, &bd): aborts, or returns the rows
ReadPngFile(t) ==
  /\ Running("parallel") /\ pc[t] = "read_png_file"
  /\ IF DecodeOk(bd[t])
     THEN /\ row_pointers' = [row_pointers EXCEPT ![t] = Decoded(bd[t])]
          /\ bd' = [bd EXCEPT ![t].pos = 1]
          /\ pc' = [pc EXCEPT ![t] = "paint_destination"]
          /\ run' = run
     ELSE /\ run' = "aborted"
          /\ UNCHANGED <<row_pointers, bd, pc>>
  /\ UNCHANGED <<mode, num_threads, output, received_fragments, output_buffer,
                 counter, get_url_lock, header_cb_lock, paint_destination_lock,
                 hd, chk, mpc, U, msgs, urls, att, faults, budget, outstanding, painted, pure>>

\* paint_destination: pthread_mutex_lock(&paint_destination_lock)
PaintLock(t) ==
  /\ Running("parallel") /\ pc[t] = "paint_destination"
  /\ LockFree(paint_destination_lock)
  /\ paint_destination_lock' = t
  /\ pc' = [pc EXCEPT ![t] = "paint_copy"]
  /\ UNCHANGED <<mode, num_threads, run, output, received_fragments, output_buffer,
                 counter, get_url_lock, header_cb_lock, bd, hd, row_pointers, chk,
                 mpc, U, msgs, urls, att, faults, budget, outstanding, painted, pure>>

\* paint_destination(png_ptr, row_pointers, hd.n*BUF_WIDTH, 0, output_buffer):
\* the copy loops and the unlock; then thread_function frees the rows and
\* sets received_all_fragments = true before its loop over the flags
PaintCopy(t) ==
  /\ Running("parallel") /\ pc[t] = "paint_copy"
  /\ LET x0 == XOffset(WIDTH, N, hd[t]) IN
       /\ output_buffer' = paint_destination(output_buffer, row_pointers[t],
                                             WIDTH, N, HEIGHT, x0, 0)
       /\ IF PaintOutOfBounds(output_buffer, WIDTH, N, HEIGHT, x0, 0)
          THEN \E crash \in BOOLEAN : run' = IF crash THEN "aborted" ELSE run
          ELSE run' = run
  /\ painted' = LogPaint(hd[t], row_pointers[t])
  /\ att' = [att EXCEPT ![t] = "pending"]
  /\ paint_destination_lock' = Unlock(paint_destination_lock, t)
  /\ row_pointers' = [row_pointers EXCEPT ![t] = NoRows]
  /\ chk' = [chk EXCEPT ![t] = [i |-> 0, received_all |-> TRUE]]
  /\ pc' = [pc EXCEPT ![t] = "check"]
  /\ UNCHANGED <<mode, num_threads, output, received_fragments, counter,
                 get_url_lock, header_cb_lock, bd, hd, mpc, U, msgs, urls,
                 faults, budget, outstanding, pure>>

\* mutant: the loop body assigns the flag ("received_all_fragments =
\* received_fragments[i]")
ScanFlagLast(ra, flag) == flag

\* "if (!received_fragments[i]) received_all_fragments = false;": the local
\* after the statement, for its value ra before and the flag read
ScanFlag(ra, flag) == ra /\ flag

\* one iteration of "for (int i = 0; i < N; i++) if (!received_fragments[i])
\* received_all_fragments = false;" (no lock is held); after the last one,
\* "while (!received_all_fragments)", which leaves both locals dead
CheckFlag(t) ==
  /\ Running("parallel") /\ pc[t] = "check"
  /\ LET i == chk[t].i
         ra == ScanFlag(chk[t].received_all, received_fragments[i])
     IN /\ chk' = [chk EXCEPT ![t] = IF i + 1 < N
                                     THEN [i |-> i + 1, received_all |-> ra]
                                     ELSE [i |-> 0, received_all |-> FALSE]]
        /\ pc' = [pc EXCEPT ![t] = IF i + 1 < N THEN "check"
                                   ELSE IF ra THEN "exited" ELSE "get_url"]
  /\ UNCHANGED <<mode, num_threads, run, output, received_fragments, output_buffer,
                 counter, get_url_lock, header_cb_lock, paint_destination_lock, bd,
                 hd, row_pointers, mpc, U, msgs, urls, att, faults, budget, outstanding, painted, pure>>

\* mutant: main waits for one thread only
JoinedAny == \E t \in Threads : pc[t] = "exited"

\* main: every pthread_join has returned
Joined == \A t \in Threads : pc[t] = "exited"

\* main: write_png_file("output.png", ...): fopen fails (abort_) or the canvas
\* is written
WritePngFile(opened) ==
  /\ Running("parallel") /\ mpc = "threads"
  /\ Joined
  /\ IF opened
     THEN run' = "finalized" /\ output' = output_buffer
     ELSE run' = "aborted" /\ output' = output
  /\ mpc' = "done"
  /\ UNCHANGED <<mode, num_threads, received_fragments, output_buffer, counter,
                 get_url_lock, header_cb_lock, paint_destination_lock, pc, bd, hd,
                 row_pointers, chk, U, msgs, urls, att, faults, budget, outstanding, painted, pure>>

(* ------------------------------------------------------------------ *)
(* paster_nbio.c: main and the transfers that curl_multi_perform      *)
(* drives; everything runs on the one thread.                         *)
(* ------------------------------------------------------------------ *)
\* contexts = calloc(...): hd.n is 0; the handles are not added yet
InitNbio ==
  /\ mode = "nbio"
  /\ num_threads \in 1 .. MaxThreads
  /\ InitShared
  /\ pc = [t \in Threads |-> "idle"]
  /\ bd = [t \in Threads |-> [buf |-> FreshBuf, len |-> 0, pos |-> 0, max_size |-> 0]]
  /\ hd = [t \in Threads |-> 0]
  /\ row_pointers = [t \in Threads |-> NoRows]
  /\ chk = [t \in Threads |-> [i |-> 0, received_all |-> FALSE]]
  /\ att = [t \in Threads |-> "pending"]
  /\ mpc = "init" /\ U = 0 /\ msgs = <<>>
  /\ pure = NoPure

\* mutant: curl counts a transfer as running only once its body has started
RunningHandlesBody == {t \in Threads : pc[t] = "perform_body"}

\* the transfers curl is still running
RunningHandles == {t \in Threads : pc[t] \in {"perform", "perform_body"}}

\* "for (i = 0; i < num_threads; ++i) init_curl_for_multi_curl(...)": one
\* iteration, which ends in init_curl: get_url (no lock here), the buffer
\* reset, curl_multi_add_handle.  After the last one, "U = -1"
InitCurlForMultiCurl(t) ==
  /\ Running("nbio") /\ mpc = "init"
  /\ pc[t] = "idle" /\ \A u \in Threads : u < t => pc[u] # "idle"
  /\ urls' = LogUrl(UrlOf(counter))
  /\ counter' = NextCounter(counter)
  /\ bd' = [bd EXCEPT ![t] = ResetBuf(bd[t])]
  /\ att' = [att EXCEPT ![t] = "pending"]
  /\ pc' = [pc EXCEPT ![t] = "perform"]
  /\ IF t = num_threads THEN mpc' = "while" /\ U' = -1
                        ELSE mpc' = mpc /\ U' = U
  /\ outstanding' = AddHandle(outstanding)
  /\ UNCHANGED <<mode, num_threads, run, output, received_fragments, output_buffer,
                 get_url_lock, header_cb_lock, paint_destination_lock, hd,
                 row_pointers, chk, msgs, faults, budget, painted, pure>>

\* "while (U)": into curl_multi_perform(curlm, &U), or out of the loop
While ==
  /\ Running("nbio") /\ mpc = "while"
  /\ mpc' = IF U # 0 THEN "perform" ELSE "write"
  /\ UNCHANGED <<mode, num_threads, run, output, received_fragments, output_buffer,
                 counter, get_url_lock, header_cb_lock, paint_destination_lock,
                 pc, bd, hd, row_pointers, chk, U, msgs, urls, att, faults,
                 budget, outstanding, painted, pure>>

\* inside curl_multi_perform: header_cb on the header line of a transfer (no
\* lock in this program); the store to received_fragments is unchecked as in
\* the other program
NbRecvHeader(t, line) ==
  /\ Running("nbio") /\ mpc = "perform" /\ pc[t] = "perform"
  /\ LET kind == HeaderKind(line) IN
       IF kind = "ok"
       THEN att' = [att EXCEPT ![t] = "ok"] /\ faults' = faults
       ELSE CanFault(t) /\ LogFault(t, kind)
  /\ IF HeaderMatches(line)
     THEN LET n == Atoi(line.value) IN
          /\ hd' = [hd EXCEPT ![t] = n]
          /\ IF n \in Frags
             THEN /\ received_fragments' = Mark(received_fragments, n)
                  /\ run' = run
             ELSE /\ received_fragments' = received_fragments
                  /\ \E crash \in BOOLEAN : run' = IF crash THEN "aborted" ELSE run
     ELSE UNCHANGED <<hd, received_fragments, run>>
  /\ pc' = [pc EXCEPT ![t] = "perform_body"]
  /\ UNCHANGED <<mode, num_threads, output, output_buffer, counter, get_url_lock,
                 header_cb_lock, paint_destination_lock, bd, row_pointers, chk,
                 mpc, U, msgs, urls, budget, outstanding, painted, pure>>

\* inside curl_multi_perform: write_cb on a chunk of a transfer.  A refused
\* chunk ends the transfer with an error, which is queued as a done message
NbWriteCb(t, f, size) ==
  /\ Running("nbio") /\ mpc = "perform" /\ pc[t] = "perform_body"
  /\ bd[t].len + size <= MaxBody
  /\ LET defect == ChunkDefect(t, f, size) IN
       IF defect = "ok" THEN att' = att /\ faults' = faults
       ELSE CanFault(t) /\ LogFault(t, defect)
  /\ IF WriteRefused(bd[t], size)
     THEN /\ bd' = bd /\ run' = run
          /\ pc' = [pc EXCEPT ![t] = "done"]
          /\ msgs' = Append(msgs, [t |-> t, ok |-> FALSE])
     ELSE /\ bd' = [bd EXCEPT ![t] = write_cb(bd[t], f, size)]
          /\ pc' = pc /\ msgs' = msgs
          /\ IF WriteOverflows(bd[t], size)
             THEN \E crash \in BOOLEAN : run' = IF crash THEN "aborted" ELSE run
             ELSE run' = run
  /\ UNCHANGED <<mode, num_threads, output, received_fragments, output_buffer,
                 counter, get_url_lock, header_cb_lock, paint_destination_lock,
                 hd, row_pointers, chk, mpc, U, urls, budget, outstanding, painted, pure>>

\* inside curl_multi_perform: a transfer ends, with CURLE_OK once its body is
\* in or with an error at any point; curl queues a CURLMSG_DONE message
NbTransferDone(t, ok) ==
  /\ Running("nbio") /\ mpc = "perform"
  /\ IF ok
     THEN /\ pc[t] = "perform_body"
          /\ IF bd[t].len < PngLen
             THEN CanFault(t) /\ LogFault(t, "body")
             ELSE att' = att /\ faults' = faults
     ELSE /\ pc[t] \in {"perform", "perform_body"}
          /\ CanFault(t) /\ LogFault(t, "transport")
  /\ pc' = [pc EXCEPT ![t] = "done"]
  /\ msgs' = Append(msgs, [t |-> t, ok |-> ok])
  /\ UNCHANGED <<mode, num_threads, run, output, received_fragments, output_buffer,
                 counter, get_url_lock, header_cb_lock, paint_destination_lock, bd,
                 hd, row_pointers, chk, mpc, U, urls, budget, outstanding, painted, pure>>

\* curl_multi_perform returns, with the number of running handles in U
MultiPerformReturn ==
  /\ Running("nbio") /\ mpc = "perform"
  /\ U' = Cardinality(RunningHandles)
  /\ mpc' = "info_read"
  /\ UNCHANGED <<mode, num_threads, run, output, received_fragments, output_buffer,
                 counter, get_url_lock, header_cb_lock, paint_destination_lock,
                 pc, bd, hd, row_pointers, chk, msgs, urls, att, faults, budget, outstanding,
                 painted, pure>>

\* curl_multi_info_read returns NULL: the inner loop ends
InfoReadNone ==
  /\ Running("nbio") /\ mpc = "info_read"
  /\ msgs = <<>>
  /\ mpc' = "while"
  /\ UNCHANGED <<mode, num_threads, run, output, received_fragments, output_buffer,
                 counter, get_url_lock, header_cb_lock, paint_destination_lock,
                 pc, bd, hd, row_pointers, chk, U, msgs, urls, att, faults,
                 budget, outstanding, painted, pure>>

\* curl_multi_info_read returns a message, which curl only makes of kind
\* CURLMSG_DONE; msg->data.result is not looked at.  The handle is removed,
\* the buffer decoded (abort_, or rows), the rows composited at
\* hd.n*BUF_WIDTH and freed, the flags checked; if one is missing, init_curl
\* on the same context and the inner curl_multi_perform
Harvest ==
  /\ Running("nbio") /\ mpc = "info_read"
  /\ msgs # <<>>
  /\ LET t == Head(msgs).t IN
     /\ msgs' = Tail(msgs)
     /\ IF ~DecodeOk(bd[t])
        THEN /\ run' = "aborted"
             /\ pc' = [pc EXCEPT ![t] = "removed"]
             /\ outstanding' = RemoveHandle(outstanding)
             /\ UNCHANGED <<output_buffer, painted, att, bd, urls, counter, mpc>>
        ELSE LET f == Decoded(bd[t])
                 x0 == XOffset(WIDTH, N, hd[t])
             IN
             /\ output_buffer' = paint_destination(output_buffer, f, WIDTH, N,
                                                   HEIGHT, x0, 0)
             /\ IF PaintOutOfBounds(output_buffer, WIDTH, N, HEIGHT, x0, 0)
                THEN \E crash \in BOOLEAN : run' = IF crash THEN "aborted" ELSE run
                ELSE run' = run
             /\ painted' = LogPaint(hd[t], f)
             /\ att' = [att EXCEPT ![t] = "pending"]
             /\ IF AllReceived(received_fragments)
                THEN /\ pc' = [pc EXCEPT ![t] = "removed"]
                     /\ bd' = [bd EXCEPT ![t].pos = 1]
                     /\ outstanding' = RemoveHandle(outstanding)
                     /\ UNCHANGED <<urls, counter, mpc>>
                ELSE /\ urls' = LogUrl(UrlOf(counter))
                     /\ counter' = NextCounter(counter)
                     /\ bd' = [bd EXCEPT ![t] = ResetBuf(bd[t])]
                     /\ pc' = [pc EXCEPT ![t] = "perform"]
                     /\ outstanding' = AddHandle(RemoveHandle(outstanding))
                     /\ mpc' = "perform"
  /\ UNCHANGED <<mode, num_threads, output, received_fragments, get_url_lock,
                 header_cb_lock, paint_destination_lock, hd, row_pointers, chk,
                 U, faults, budget, pure>>

\* main, after the loop: write_png_file("output.png", ...)
NbWritePngFile(opened) ==
  /\ Running("nbio") /\ mpc = "write"
  /\ IF opened
     THEN run' = "finalized" /\ output' = output_buffer
     ELSE run' = "aborted" /\ output' = output
  /\ mpc' = "done"
  /\ UNCHANGED <<mode, num_threads, received_fragments, output_buffer, counter,
                 get_url_lock, header_cb_lock, paint_destination_lock, pc, bd, hd,
                 row_pointers, chk, U, msgs, urls, att, faults, budget, outstanding, painted,
                 pure>>

(* ------------------------------------------------------------------ *)
(* Compositing and marking alone: paint_destination and the store of   *)
(* header_cb applied to deliveries <<n, f>>, on canvases of any width  *)
(* and number of fragments.                                           *)
(* ------------------------------------------------------------------ *)
PureCanvas(W) == [d \in 0 .. (W * HEIGHT * 4 - 1) |-> 0]

InitPure ==
  /\ mode = "pure"
  /\ \E W \in 1 .. MaxPureW, Nn \in 1 .. MaxPureN :
       pure = [W |-> W, N |-> Nn,
               dest |-> PureCanvas(W),
               flags |-> [i \in 0 .. (Nn - 1) |-> FALSE],
               written |-> [i \in 0 .. (Nn - 1) |-> {}],
               last |-> <<>>,
               repeated |-> FALSE,
               before |-> <<>>]
  /\ num_threads = 1
  /\ InitShared
  /\ pc = <<"idle">>
  /\ bd = <<[buf |-> FreshBuf, len |-> 0, pos |-> 0, max_size |-> 0]>>
  /\ hd = <<0>>
  /\ row_pointers = <<NoRows>>
  /\ chk = <<[i |-> 0, received_all |-> FALSE]>>
  /\ att = <<"pending">>
  /\ mpc = "pure" /\ U = 0 /\ msgs = <<>>
  /\ budget = 0

\* header_cb stores the flag of n, and the main loop composites the rows of f
\* at n*BUF_WIDTH.  The log keeps the indices written for n, the delivery
\* before this one and the canvas and flags it left
Composite(n, f) ==
  /\ mode = "pure"
  /\ LET W == pure.W
         Nn == pure.N
         x0 == XOffset(W, Nn, n)
     IN pure' = [pure EXCEPT
                   !.dest = paint_destination(pure.dest, f, W, Nn, HEIGHT, x0, 0),
                   !.flags = Mark(pure.flags, n),
                   !.written = [pure.written EXCEPT
                                  ![n] = PaintIndices(W, Nn, HEIGHT, x0, 0)],
                   !.last = <<n, f>>,
                   !.repeated = (pure.last = <<n, f>>),
                   !.before = <<pure.dest, pure.flags>>]
  /\ UNCHANGED <<mode, num_threads, run, output, received_fragments, output_buffer,
                 counter, get_url_lock, header_cb_lock, paint_destination_lock,
                 pc, bd, hd, row_pointers, chk, mpc, U, msgs, urls, att, faults,
                 budget, outstanding, painted>>

(* ------------------------------------------------------------------ *)
(* One decode and one composite, as functions of the image geometry:  *)
(* read_png_file allocating the rows of a PNG of some height, then    *)
(* paint_destination called with some offset, on canvases of any      *)
(* width and number of fragments.                                     *)
(* ------------------------------------------------------------------ *)
\* the heights a PNG may declare: from one row to one more than BUF_HEIGHT
PngHeights == 1 .. (HEIGHT + 1)

InitPaint ==
  /\ mode = "paint"
  /\ \E W \in 1 .. MaxPureW, Nn \in 1 .. MaxPureN, y0 \in 0 .. MaxY0, h \in PngHeights :
       pure = [W |-> W, N |-> Nn, y0 |-> y0, h |-> h,
               rows |-> {}, n |-> 0, x0 |-> 0,
               written |-> {}, rowsread |-> {}, status |-> "fetched"]
  /\ num_threads = 1
  /\ InitShared
  /\ pc = <<"idle">>
  /\ bd = <<[buf |-> FreshBuf, len |-> 0, pos |-> 0, max_size |-> 0]>>
  /\ hd = <<0>>
  /\ row_pointers = <<NoRows>>
  /\ chk = <<[i |-> 0, received_all |-> FALSE]>>
  /\ att = <<"pending">>
  /\ mpc = "paint" /\ U = 0 /\ msgs = <<>>
  /\ budget = 0

\* read_png_file: "row_pointers = malloc(sizeof(png_bytep) * BUF_HEIGHT); for
\* (y=0; y<height; y++) row_pointers[y] = malloc(rowbytes);": the rows below
\* height get a buffer, the other entries stay uninitialised; for a height
\* above BUF_HEIGHT the stores leave the array (undefined behaviour: the
\* process dies, or goes on)
ReadRows ==
  /\ mode = "paint" /\ pure.status = "fetched"
  /\ \E crash \in BOOLEAN :
       /\ crash => pure.h > HEIGHT
       /\ pure' = [pure EXCEPT !.rows = 0 .. (pure.h - 1),
                               !.status = IF crash THEN "crashed" ELSE "decoded"]
  /\ UNCHANGED <<mode, num_threads, run, output, received_fragments, output_buffer,
                 counter, get_url_lock, header_cb_lock, paint_destination_lock,
                 pc, bd, hd, row_pointers, chk, mpc, U, msgs, urls, att, faults,
                 budget, outstanding, painted>>

\* the rows of row_pointers that paint_destination reads
RowsRead(W, Nn, H, y0) == {it[1] : it \in PaintIters(W, Nn, H, y0)}

\* paint_destination(png_ptr, row_pointers, n*BUF_WIDTH, y0, dest) on the rows
\* decoded: it reads row_pointers[y] for every y of its loop, whatever the
\* height of the PNG was; reading an entry that has no buffer is undefined
\* behaviour (the process dies at the first such row, or copies what it finds)
PaintRows(n) ==
  /\ mode = "paint" /\ pure.status = "decoded"
  /\ LET W == pure.W
         Nn == pure.N
         x0 == XOffset(W, Nn, n)
         iters == PaintIters(W, Nn, HEIGHT, pure.y0)
         reads == RowsRead(W, Nn, HEIGHT, pure.y0)
     IN \E crash \in BOOLEAN :
          /\ crash => ~(reads \subseteq pure.rows)
          /\ pure' = [pure EXCEPT
               !.n = n, !.x0 = x0,
               !.rowsread = IF crash THEN reads \cap (0 .. pure.h) ELSE reads,
               !.written =
                 IF crash
                 THEN {PaintIndex(W, x0, pure.y0, it[2], it[1], it[3]) :
                         it \in {j \in iters : j[1] < pure.h}}
                 ELSE PaintIndices(W, Nn, HEIGHT, x0, pure.y0),
               !.status = IF crash THEN "crashed" ELSE "painted"]
  /\ UNCHANGED <<mode, num_threads, run, output, received_fragments, output_buffer,
                 counter, get_url_lock, header_cb_lock, paint_destination_lock,
                 pc, bd, hd, row_pointers, chk, mpc, U, msgs, urls, att, faults,
                 budget, outstanding, painted>>

(* ------------------------------------------------------------------ *)
(* The command line: the getopt loop of main in the two programs, as  *)
(* a function of the options given.                                   *)
(* ------------------------------------------------------------------ *)
\* the option letters and the option arguments tried: "x" stands for every
\* letter that is no option of the programs; the arguments are zero, a positive
\* number, a negative number and a word
CliLetters == {"t", "i", "x"}
CliArgs == {<<"0">>, <<"2">>, <<"-", "1">>, <<"x">>}
CliOptions == [opt : CliLetters, arg : CliArgs]

RECURSIVE SeqsUpTo(_, _)
\* the sequences over S of length at most n
SeqsUpTo(S, n) ==
  IF n = 0 THEN {<<>>}
  ELSE LET shorter == SeqsUpTo(S, n - 1)
       IN shorter \cup {Append(s, e) : s \in shorter, e \in S}

\* the third argument of getopt: "t:" in paster_parallel.c, "t:i:" in
\* paster_nbio.c
Optstring(prog) == IF prog = "parallel" THEN {"t"} ELSE {"t", "i"}

\* "num_threads = strtoul(optarg, NULL, 10)": strtoul reads an optional sign and
\* the digits, gives 0 when there is no digit, and negates in unsigned long
\* for a minus sign; the assignment to int brings that back to the negative
\* number
StrtoulToInt(s) ==
  IF s = <<>> THEN 0
  ELSE IF Head(s) = "-" THEN -AtoiDigits(Tail(s), 0)
  ELSE AtoiDigits(s, 0)

InitCli ==
  /\ mode = "cli"
  /\ \E prog \in {"parallel", "nbio"}, args \in SeqsUpTo(CliOptions, MaxArgs) :
       pure = [prog |-> prog, args |-> args, rest |-> args,
               num_threads |-> 4, img |-> 1, status |-> "getopt"]
  /\ num_threads = 1
  /\ InitShared
  /\ pc = <<"idle">>
  /\ bd = <<[buf |-> FreshBuf, len |-> 0, pos |-> 0, max_size |-> 0]>>
  /\ hd = <<0>>
  /\ row_pointers = <<NoRows>>
  /\ chk = <<[i |-> 0, received_all |-> FALSE]>>
  /\ att = <<"pending">>
  /\ mpc = "cli" /\ U = 0 /\ msgs = <<>>
  /\ budget = 0

\* one turn of "while ((c = getopt(argc, argv, optstring)) != -1) switch (c)":
\* a letter outside optstring comes back as '?', the default case, "return -1";
\* case 't' and case 'i' return -1 on a zero value
Getopt ==
  /\ mode = "cli" /\ pure.status = "getopt" /\ pure.rest # <<>>
  /\ LET o == Head(pure.rest)
         v == StrtoulToInt(o.arg)
     IN pure' =
          IF o.opt \notin Optstring(pure.prog) \/ v = 0
          THEN [pure EXCEPT !.status = "returned"]
          ELSE IF o.opt = "t"
          THEN [pure EXCEPT !.num_threads = v, !.rest = Tail(pure.rest)]
          ELSE [pure EXCEPT !.img = v, !.rest = Tail(pure.rest)]
  /\ UNCHANGED <<mode, num_threads, run, output, received_fragments, output_buffer,
                 counter, get_url_lock, header_cb_lock, paint_destination_lock,
                 pc, bd, hd, row_pointers, chk, mpc, U, msgs, urls, att, faults,
                 budget, outstanding, painted>>

\* getopt returns -1: main allocates "calloc(num_threads, ...)", which gives
\* NULL for a negative num_threads (the product overflows size_t) and main
\* calls abort_; otherwise the requests start, with num_threads and img
GetoptEnd ==
  /\ mode = "cli" /\ pure.status = "getopt" /\ pure.rest = <<>>
  /\ pure' = [pure EXCEPT !.status = IF pure.num_threads < 0 THEN "aborted"
                                     ELSE "started"]
  /\ UNCHANGED <<mode, num_threads, run, output, received_fragments, output_buffer,
                 counter, get_url_lock, header_cb_lock, paint_destination_lock,
                 pc, bd, hd, row_pointers, chk, mpc, U, msgs, urls, att, faults,
                 budget, outstanding, painted>>

(* ------------------------------------------------------------------ *)
(* The specifications.                                                *)
(* ------------------------------------------------------------------ *)
NextParallel ==
  \/ \E t \in Threads : GetUrlLock(t)
  \/ \E t \in Threads : GetUrlSwitch(t)
  \/ \E t \in Threads : GetUrlInc(t)
  \/ \E t \in Threads, line \in HdrLines : RecvHeader(t, line)
  \/ \E t \in Threads : HeaderCbLock(t)
  \/ \E t \in Threads : HeaderCbSet(t)
  \/ \E t \in Threads, f \in BodySources, size \in 1 .. BUF_SIZE : WriteCb(t, f, size)
  \/ \E t \in Threads, ok \in BOOLEAN : PerformReturn(t, ok)
  \/ \E t \in Threads : ReadPngFile(t)
  \/ \E t \in Threads : PaintLock(t)
  \/ \E t \in Threads : PaintCopy(t)
  \/ \E t \in Threads : CheckFlag(t)
  \/ \E opened \in BOOLEAN : WritePngFile(opened)

NextNbio ==
  \/ \E t \in Threads : InitCurlForMultiCurl(t)
  \/ While
  \/ \E t \in Threads, line \in HdrLines : NbRecvHeader(t, line)
  \/ \E t \in Threads, f \in BodySources, size \in 1 .. BUF_SIZE : NbWriteCb(t, f, size)
  \/ \E t \in Threads, ok \in BOOLEAN : NbTransferDone(t, ok)
  \/ MultiPerformReturn
  \/ InfoReadNone
  \/ Harvest
  \/ \E opened \in BOOLEAN : NbWritePngFile(opened)

Next == NextParallel \/ NextNbio

\* both programs, in an environment where every response is well-formed and
\* every transfer succeeds
Init == (InitParallel \/ InitNbio) /\ budget = 0
Spec == Init /\ [][Next]_vars

\* paster_parallel.c, in an environment that may deliver ill-formed responses
\* and fail transfers
InitFaults == InitParallel /\ budget = MaxFaults
SpecFaults == InitFaults /\ [][NextParallel]_vars

\* paster_nbio.c, in the same environment
InitFaultsNbio == InitNbio /\ budget = MaxFaults
SpecFaultsNbio == InitFaultsNbio /\ [][NextNbio]_vars

\* compositing and marking alone
NextPure == \E n \in 0 .. (pure.N - 1), f \in 0 .. (pure.N - 1) : Composite(n, f)
SpecPure == InitPure /\ [][NextPure]_vars

\* one decode and one composite alone
NextPaint == ReadRows \/ \E n \in 0 .. (pure.N - 1) : PaintRows(n)
SpecPaint == InitPaint /\ [][NextPaint]_vars

\* the command line alone
NextCli == Getopt \/ GetoptEnd
SpecCli == InitCli /\ [][NextCli]_vars

\* one step of worker t of paster_parallel.c in thread_function, on a
\* successful transfer
ThreadStep(t) ==
  /\ t \in Threads
  /\ \/ GetUrlLock(t) \/ GetUrlSwitch(t) \/ GetUrlInc(t)
     \/ \E line \in HdrLines : RecvHeader(t, line)
     \/ HeaderCbLock(t) \/ HeaderCbSet(t)
     \/ \E f \in BodySources, size \in 1 .. BUF_SIZE : WriteCb(t, f, size)
     \/ PerformReturn(t, TRUE)
     \/ ReadPngFile(t) \/ PaintLock(t) \/ PaintCopy(t) \/ CheckFlag(t)

\* one step of the main function of either program
MainStep ==
  \/ \E opened \in BOOLEAN : WritePngFile(opened)
  \/ \E t \in Threads : InitCurlForMultiCurl(t)
  \/ While \/ MultiPerformReturn \/ InfoReadNone \/ Harvest
  \/ \E opened \in BOOLEAN : NbWritePngFile(opened)

\* progress of the transfer of context t of paster_nbio.c, made inside
\* curl_multi_perform
TransferStep(t) ==
  /\ t \in Threads
  /\ \/ \E line \in HdrLines : NbRecvHeader(t, line)
     \/ \E f \in BodySources, size \in 1 .. BUF_SIZE : NbWriteCb(t, f, size)
     \/ NbTransferDone(t, TRUE)

\* a response that carries fragment f is delivered to some worker or context
Delivers(f) ==
  \E t \in Threads : RecvHeader(t, ProtocolLine(f)) \/ NbRecvHeader(t, ProtocolLine(f))

\* the scheduler runs every thread that can take a step; every transfer
\* completes; the server delivers every fragment again and again
Fairness ==
  /\ WF_vars(MainStep)
  /\ \A t \in 1 .. MaxThreads : WF_vars(ThreadStep(t)) /\ SF_vars(TransferStep(t))
  /\ \A f \in Frags : SF_vars(Delivers(f))

\* both programs under fair scheduling and a fair server
SpecLive == Init /\ [][Next]_vars /\ Fairness

(* ------------------------------------------------------------------ *)
(* Properties.                                                        *)
(* ------------------------------------------------------------------ *)
\* the region of fragment i by the layout: WIDTH/N pixels wide, at horizontal
\* offset i * (WIDTH/N), every row; it holds the decoded rows of fragment f
RegionHolds(canvas, i, f) ==
  \A y \in 0 .. (HEIGHT - 1), x \in 0 .. ((WIDTH \div N) - 1), c \in 0 .. 3 :
    canvas[((y * WIDTH) + (i * (WIDTH \div N)) + x) * 4 + c]
      = PixelByte(f, y, x * 4 + c)
RegionBlank(canvas, i) ==
  \A y \in 0 .. (HEIGHT - 1), x \in 0 .. ((WIDTH \div N) - 1), c \in 0 .. 3 :
    canvas[((y * WIDTH) + (i * (WIDTH \div N)) + x) * 4 + c] = 0
Seen(kind) == \E k \in 1 .. Len(faults) : faults[k] = kind

\* C1: in both programs, for every number of threads and every order of
\* well-formed deliveries, when write_png_file runs every region i of the
\* canvas holds the decoded pixels of fragment i.
C1_CanvasComplete ==
  run = "finalized" =>
    /\ output = output_buffer
    /\ \A i \in Frags : RegionHolds(output, i, i)
\* a finalized run of two threads
C1_Witness == run = "finalized" /\ mode = "parallel" /\ num_threads = 2

\* C2: a received_fragments flag that is true stays true, and once all are true
\* no later store of header_cb makes the completion check false.
C2_TrackerMonotone ==
  [][/\ \A i \in Frags : received_fragments[i] => received_fragments'[i]
     /\ (\A i \in Frags : received_fragments[i])
          => (\A i \in Frags : received_fragments'[i])]_vars
\* all flags are set, and a thread has just stored the flag of a fragment that
\* was composited before (a duplicate mark after completion)
C2_Witness ==
  /\ \A i \in Frags : received_fragments[i]
  /\ \E t \in Threads : /\ mode = "parallel" /\ pc[t] = "perform_body"
                        /\ att[t] = "ok" /\ <<hd[t], hd[t]>> \in painted

\* C3: a response without the fragment header ends the run: the attempt does
\* not reach the composite step and write_png_file never runs.
C3_MissingHeaderFatal ==
  /\ \A t \in Threads : att[t] = "nohdr" => pc[t] \notin {"paint_destination", "paint_copy"}
  /\ Seen("nohdr") => run # "finalized"

\* C4: a fragment index outside [0, N) aborts the run: once header_cb has been
\* through its store for such an index the run is over, the attempt does not
\* composite, and write_png_file never runs.
C4_OutOfRangeFatal ==
  /\ \A t \in Threads :
       att[t] = "range" /\ pc[t] \notin {"perform", "header_cb", "header_cb_set"}
         => run = "aborted"
  /\ Seen("range") => run # "finalized"

\* C5: write_cb never stores past the capacity of the buffer (pos stays within
\* max_size), and a body larger than the capacity ends the run.
C5_NoBufferOverflow ==
  /\ \A t \in Threads : bd[t].pos <= BUF_SIZE
  /\ Seen("overflow") => run = "aborted"

\* C6: a failed transfer ends the run at once: once the program has taken the
\* result of the failed transfer, the run is aborted (no decode, no composite,
\* no output).
C6_TransportFailureFatal ==
  Seen("transport") =>
    \/ run = "aborted"
    \/ \E k \in 1 .. Len(msgs) : ~msgs[k].ok

\* C7: the get_url calls are serialized and select the endpoints 1, 2, 3, 1,
\* 2, 3, ... in the order of the calls: every selection follows the one
\* before, three calls in a row select the three endpoints, and no endpoint
\* is ever selected two times more than another; the counter is the index of
\* the next endpoint whenever no call is between its switch and its increment.
C7_RoundRobin ==
  LET w == urls.win IN
  /\ \A k \in 1 .. (Len(w) - 1) : w[k + 1] = (w[k] % 3) + 1
  /\ Len(w) < 3 /\ w # <<>> => w[1] = 1
  /\ Len(w) = 3 => {w[k] : k \in 1 .. 3} = {1, 2, 3}
  /\ \A e \in 1 .. 3 : urls.cnt[e] <= 1
  /\ (w # <<>> /\ \A t \in Threads : pc[t] # "get_url_inc")
       => counter = w[Len(w)] % 3
\* two threads have made at least five calls between them
C7_Witness ==
  /\ mode = "parallel" /\ num_threads = 2
  /\ urls.win = <<3, 1, 2>>
  /\ \E t \in Threads : pc[t] = "get_url_switch"

\* C8: for fragment indices i # j of the canvas, the byte indices that
\* paint_destination writes at x0 = i*BUF_WIDTH and at x0 = j*BUF_WIDTH are
\* disjoint.
C8_RegionsDisjoint ==
  \A i \in DOMAIN pure.written, j \in DOMAIN pure.written :
    i # j => pure.written[i] \cap pure.written[j] = {}
\* three fragments on a canvas whose width is no multiple of three, all written
C8_Witness ==
  /\ mode = "pure" /\ pure.N = 3 /\ pure.W = 5
  /\ \A i \in DOMAIN pure.written : pure.written[i] # {}

\* C9: compositing and marking the same fragment at the same index a second
\* time leaves the canvas and the flags as the first time left them.
C9_DuplicateIdempotent ==
  (mode = "pure" /\ pure.repeated) =>
    /\ pure.dest = pure.before[1]
    /\ pure.flags = pure.before[2]
\* a second delivery of the same fragment, on a canvas of several fragments
C9_Witness == mode = "pure" /\ pure.repeated /\ pure.N >= 2 /\ pure.W >= pure.N

\* the canvas that holds the fragments of S and nothing else
CanvasHolds(canvas, S) ==
  \A i \in Frags : IF i \in S THEN RegionHolds(canvas, i, i) ELSE RegionBlank(canvas, i)

\* C10: the two programs stop scheduling on the same condition, all N flags
\* true, and in both the canvas depends only on the set of fragments
\* composited, not on the interleaving or on the order of harvest; both end
\* with the canvas that holds every fragment.
C10_ModesEquivalent ==
  /\ (mode = "parallel" /\ \E t \in Threads : pc[t] = "exited")
       => \A i \in Frags : received_fragments[i]
  /\ (mode = "nbio" /\ (mpc \in {"write", "done"} \/ \E t \in Threads : pc[t] = "removed"))
       => \A i \in Frags : received_fragments[i]
  /\ CanvasHolds(output_buffer, {i \in Frags : <<i, i>> \in painted})
  /\ run = "finalized" => CanvasHolds(output, Frags)
\* the non-blocking program has finalized a run of two transfers at a time
C10_Witness == run = "finalized" /\ mode = "nbio" /\ num_threads = 2

\* C11: write_png_file runs at most once in a run, and it starts only when
\* nothing else is in progress: in paster_parallel.c every thread has left
\* thread_function (all joins returned); in paster_nbio.c the loop has ended
\* with every transfer harvested and no done message left unread.  No lock is
\* held and no decoded rows are alive when it starts.
C11_FinalizerAlone ==
  [][/\ (mpc # "done" /\ mpc' = "done") =>
          /\ mode = "parallel" => \A t \in Threads : pc[t] = "exited"
          /\ mode = "nbio" => /\ \A t \in Threads : pc[t] = "removed"
                              /\ msgs = <<>>
          /\ get_url_lock = NoThread /\ header_cb_lock = NoThread
          /\ paint_destination_lock = NoThread
          /\ \A t \in Threads : row_pointers[t] = NoRows
     /\ mpc = "done" => /\ mpc' = "done"
                        /\ UNCHANGED <<run, output, output_buffer, pc>>]_vars
\* write_png_file has run, for the largest number of threads or transfers
C11_Witness ==
  /\ mpc = "done" /\ run = "finalized" /\ num_threads = MaxThreads
  /\ \A t \in Threads : pc[t] \in {"exited", "removed"}

\* the requests in progress, from where each worker or context stands
InProgress ==
  {t \in Threads : pc[t] \in {"perform", "header_cb", "header_cb_set",
                              "perform_body", "done"}}

\* C12: at any time the number of requests in progress is at most num_threads:
\* it is the number of workers inside curl_easy_perform (one call per worker at
\* a time), or the number of handles added to the multi handle and not removed;
\* in paster_nbio.c, once the num_threads initial requests are added, no step
\* raises the number (a replacement is added for a handle just removed).
C12_OutstandingBounded ==
  /\ [](/\ outstanding <= num_threads
        /\ run # "aborted" => outstanding = Cardinality(InProgress))
  /\ [][(mode = "nbio" /\ mpc # "init") => outstanding' <= outstanding]_vars
\* every context has a transfer in progress, after replacements were added
C12_Witness ==
  /\ mode = "nbio" /\ num_threads = MaxThreads /\ outstanding = num_threads
  /\ urls.win = <<2, 3, 1>>

\* worker t is about to scan the flags, and all of them are set
ScanStartsComplete(t) ==
  IF t \in Threads
  THEN /\ mode = "parallel" /\ pc[t] = "check" /\ chk[t].i = 0
       /\ \A i \in Frags : received_fragments[i]
  ELSE FALSE
\* worker t has left thread_function
HasExited(t) == IF t \in Threads THEN pc[t] = "exited" ELSE FALSE

\* C13: under fair scheduling, with every transfer completing and every
\* fragment delivered again and again, both programs reach write_png_file; and
\* a worker whose scan of the flags starts when all of them are set leaves its
\* loop.
C13_Terminates ==
  /\ <>(mpc = "done")
  /\ \A t \in 1 .. MaxThreads : ScanStartsComplete(t) ~> HasExited(t)
\* a run of paster_parallel.c that went round its loop several times has
\* reached write_png_file
C13_Witness ==
  /\ mode = "parallel" /\ mpc = "done" /\ num_threads = MaxThreads
  /\ urls.win = <<3, 1, 2>>

\* C14: the scan of the flags in thread_function, made without header_cb_lock
\* while other workers store flags.  It answers true only if every flag is true:
\* a local still true has seen the flags scanned so far true, and a worker that
\* has left its loop has all flags true.  A scan that starts when every flag is
\* true answers true: the local starts true, and with every flag true no step of
\* the scan makes it false or sends the worker round its loop again.
C14_ScanExact ==
  /\ [](\A t \in Threads :
          /\ (mode = "parallel" /\ pc[t] = "check" /\ chk[t].received_all)
               => \A j \in 0 .. (chk[t].i - 1) : received_fragments[j]
          /\ (mode = "parallel" /\ pc[t] = "exited")
               => \A i \in Frags : received_fragments[i]
          /\ (mode = "parallel" /\ pc[t] = "check" /\ chk[t].i = 0)
               => chk[t].received_all)
  /\ [][\A t \in Threads :
          (/\ mode = "parallel" /\ pc[t] = "check" /\ chk[t].received_all
           /\ \A i \in Frags : received_fragments[i])
          => /\ pc'[t] \in {"check", "exited"}
             /\ pc'[t] = "check" => chk'[t].received_all]_vars
\* a worker is in the middle of its scan, having found the first flag set,
\* while another worker is inside header_cb about to store a flag that is
\* still false
C14_Witness ==
  /\ mode = "parallel" /\ num_threads = 2
  /\ \E t \in Threads, u \in Threads :
       /\ t # u
       /\ pc[t] = "check" /\ chk[t].i = 1 /\ chk[t].received_all
       /\ pc[u] = "header_cb_set" /\ hd[u] \in Frags /\ ~received_fragments[hd[u]]

\* C15: whenever a worker composites, the index hd.n that gives the x-offset
\* was assigned by header_cb from the header of the response it has just
\* decoded: no composite is made in an attempt whose response carried no
\* fragment header.
C15_OffsetFromOwnHeader ==
  [][\A t \in Threads :
       (mode = "parallel" /\ pc[t] = "paint_copy" /\ pc'[t] = "check")
         => att[t] # "nohdr"]_vars

\* a decimal numeral greater than zero
PositiveNumeral(s) ==
  /\ s # <<>>
  /\ \A k \in 1 .. Len(s) : IsDigit(s[k])
  /\ AtoiDigits(s, 0) > 0
\* an option the command line may carry: -t or -i with a value > 0
ValidOption(o) == o.opt \in {"t", "i"} /\ PositiveNumeral(o.arg)
RECURSIVE LastValue(_, _, _)
\* the value of the last option with the letter in args, or the default
LastValue(args, letter, default) ==
  IF args = <<>> THEN default
  ELSE IF args[Len(args)].opt = letter THEN AtoiDigits(args[Len(args)].arg, 0)
  ELSE LastValue(SubSeq(args, 1, Len(args) - 1), letter, default)

\* C16: in both programs, a command line whose options are all -t or -i with a
\* value > 0 starts the run with the last -t value (default 4) as num_threads
\* and the last -i value (default 1) as img; any other command line ends the
\* program with a non-zero status before a request is made.
C16_CliSurface ==
  (mode = "cli" /\ pure.status # "getopt") =>
    IF \A k \in 1 .. Len(pure.args) : ValidOption(pure.args[k])
    THEN /\ pure.status = "started"
         /\ pure.num_threads = LastValue(pure.args, "t", 4)
         /\ pure.img = LastValue(pure.args, "i", 1)
    ELSE pure.status \in {"returned", "aborted"}

\* C17: a flag of received_fragments is set only after the rows decoded in the
\* same attempt were composited at that index: whenever flag i is true, region
\* i has been composited at least once.
C17_MarkAfterComposite ==
  \A i \in Frags : received_fragments[i] => \E f \in Frags : <<i, f>> \in painted

\* C18: in paster_nbio.c, the harvest of a done message removes the handle and
\* then adds exactly one new request on the same context if some flag is still
\* false, and none if all flags are true; once all flags are true no request
\* is added any more; and the loop is left only when every context has been
\* harvested and no done message is unread.
C18_HarvestReplenish ==
  [][mode = "nbio" =>
       LET complete == \A i \in Frags : received_fragments[i]
           harvest == mpc = "info_read" /\ msgs # <<>> /\ msgs' = Tail(msgs)
       IN
       /\ (harvest /\ run' = "running") =>
            LET t == Head(msgs).t IN
            /\ \A u \in Threads \ {t} : pc'[u] = pc[u]
            /\ IF complete
               THEN /\ pc'[t] = "removed" /\ counter' = counter
                    /\ outstanding' = outstanding - 1
               ELSE /\ pc'[t] = "perform" /\ counter' = NextCounter(counter)
                    /\ outstanding' = outstanding
                    /\ bd'[t].len = 0
       /\ complete => /\ counter' = counter
                      /\ \A u \in Threads : pc'[u] = "perform" => pc[u] = "perform"
       /\ (mpc # "write" /\ mpc' = "write") =>
            /\ \A u \in Threads : pc[u] = "removed"
            /\ msgs = <<>>]_vars
\* the drain: all flags are true, one context was harvested without a
\* replacement, and the transfer of another is still on its way
C18_Witness ==
  /\ mode = "nbio" /\ \A i \in Frags : received_fragments[i]
  /\ \E t \in Threads, u \in Threads :
       pc[t] = "removed" /\ pc[u] = "perform_body" /\ bd[u].len = 0

\* the steps of one attempt of a worker, in order, from get_url to the scan
AttemptOrder ==
  <<"get_url", "get_url_switch", "get_url_inc", "perform", "header_cb",
    "header_cb_set", "perform_body", "read_png_file", "paint_destination",
    "paint_copy", "check">>
\* the place of a step in the attempt
AttemptIndex(p) == CHOOSE k \in 1 .. Len(AttemptOrder) : AttemptOrder[k] = p

\* C19: a worker of paster_parallel.c scans the flags only at the end of an
\* attempt.  It has fetched and decoded a body whenever it scans or has left
\* its loop, so every worker makes at least one attempt; the scan is entered
\* from the composite only; and a worker in the middle of an attempt moves
\* forward in it or stays, whatever the flags are: it leaves the loop or
\* starts over from the scan only.
C19_CheckAfterAttempt ==
  /\ [](\A t \in Threads :
          (mode = "parallel" /\ pc[t] \in {"check", "exited"})
            => /\ bd[t].max_size = BUF_SIZE
               /\ bd[t].len >= PngLen /\ bd[t].pos = 1)
  /\ [][\A t \in Threads :
          (mode = "parallel" /\ pc'[t] # pc[t]) =>
            /\ pc'[t] = "check" => pc[t] = "paint_copy"
            /\ pc'[t] \in {"exited", "get_url"} => pc[t] = "check"
            /\ pc[t] # "check" => AttemptIndex(pc'[t]) > AttemptIndex(pc[t])]_vars
\* all flags are true and a worker is in its first attempt, before its request
\* is made
C19_Witness ==
  /\ mode = "parallel" /\ \A i \in Frags : received_fragments[i]
  /\ \E t \in Threads : pc[t] = "get_url_switch" /\ bd[t].max_size = 0

\* C20: in paster_parallel.c the copy loops of paint_destination run under
\* paint_destination_lock: at most one worker is inside them, that worker holds
\* the lock, and a worker that is not inside them does not hold it (the lock is
\* released when the function returns).
C20_PaintSerialized ==
  mode = "parallel" =>
    /\ Cardinality({t \in Threads : pc[t] = "paint_copy"}) <= 1
    /\ \A t \in Threads : pc[t] = "paint_copy" <=> paint_destination_lock = t
\* one worker is inside the copy loops while another, with decoded rows, waits
\* for the lock
C20_Witness ==
  /\ mode = "parallel"
  /\ \E t \in Threads, u \in Threads :
       /\ pc[t] = "paint_copy" /\ pc[u] = "paint_destination"
       /\ row_pointers[u] # NoRows

\* C21: for every fragment index in [0, N), every canvas width, every vertical
\* offset and every height of the decoded PNG, every index paint_destination
\* writes is inside the canvas, [0, W*HEIGHT*4); the rows written are the rows
\* from y0 to the last row of the canvas and no further.
C21_PaintInBounds ==
  mode = "paint" =>
    /\ \A d \in pure.written : d >= 0 /\ d < pure.W * HEIGHT * 4
    /\ (pure.status = "painted" /\ pure.N <= pure.W) =>
         {d \div (pure.W * 4) : d \in pure.written} = pure.y0 .. (HEIGHT - 1)
\* the last fragment of a canvas whose width is no multiple of N, composited
\* at a vertical offset that makes the clip at HEIGHT cut rows off
C21_Witness ==
  /\ mode = "paint" /\ pure.status = "painted"
  /\ pure.W = 5 /\ pure.N = 3 /\ pure.n = 2 /\ pure.y0 = 1 /\ pure.h = HEIGHT
  /\ pure.written # {}

\* the smaller of two numbers
Min(a, b) == IF a <= b THEN a ELSE b

\* C22: paint_destination copies min(height of the decoded PNG, rows left on
\* the canvas) rows: it reads only the row buffers read_png_file allocated,
\* and writes only that many rows of the region.
C22_CopiesDecodedRows ==
  (mode = "paint" /\ pure.status \in {"painted", "crashed"} /\ pure.N <= pure.W) =>
    /\ pure.rowsread \subseteq pure.rows
    /\ pure.status = "painted" =>
         {d \div (pure.W * 4) : d \in pure.written}
           = pure.y0 .. (pure.y0 + Min(pure.h, HEIGHT - pure.y0) - 1)

\* C23: for every canvas width W, every number of fragments N <= W and every index
\* n in [0, N), the horizontal offset that the call site hands to
\* paint_destination, "hd.n*BUF_WIDTH", is n * (W / N) in integer division, and
\* the columns written are the W / N columns from that offset.
C23_RegionArithmetic ==
  (mode = "paint" /\ pure.status = "painted" /\ pure.N <= pure.W) =>
    /\ pure.x0 = pure.n * (pure.W \div pure.N)
    /\ {(d \div 4) % pure.W : d \in pure.written}
         = (pure.n * (pure.W \div pure.N))
             .. (pure.n * (pure.W \div pure.N) + (pure.W \div pure.N) - 1)


\* the locks of paster_parallel.c that worker t holds
Held(t) ==
  {l \in {"get_url_lock", "header_cb_lock", "paint_destination_lock"} :
     \/ l = "get_url_lock" /\ get_url_lock = t
     \/ l = "header_cb_lock" /\ header_cb_lock = t
     \/ l = "paint_destination_lock" /\ paint_destination_lock = t}
\* worker t holds a lock exactly inside the straight-line region that the
\* lock brackets, hence never two at once, never while it waits for the
\* network or for another lock, and never once it has left its loop
HoldsInsideRegion(t) ==
  /\ get_url_lock = t <=> pc[t] \in {"get_url_switch", "get_url_inc"}
  /\ header_cb_lock = t <=> pc[t] = "header_cb_set"
  /\ paint_destination_lock = t <=> pc[t] = "paint_copy"
  /\ Cardinality(Held(t)) <= 1
  /\ pc[t] \in {"get_url", "perform", "header_cb", "perform_body",
                "read_png_file", "paint_destination", "check", "exited"}
       => Held(t) = {}
\* worker t is blocked in pthread_mutex_lock; worker t holds a lock
WaitsForLock(t) ==
  IF t \in Threads /\ mode = "parallel"
  THEN pc[t] \in {"get_url", "header_cb", "paint_destination"}
  ELSE FALSE
HoldsLock(t) ==
  IF t \in Threads /\ mode = "parallel" THEN Held(t) # {} ELSE FALSE
\* no lock is held by anything but a worker inside its region
LockDiscipline ==
  mode = "parallel" =>
    /\ \A t \in Threads : HoldsInsideRegion(t)
    /\ {get_url_lock, header_cb_lock, paint_destination_lock}
         \subseteq Threads \cup {NoThread}

\* C24: in paster_parallel.c no worker holds more than one of get_url_lock,
\* header_cb_lock and paint_destination_lock at a time, and none while it
\* waits on the transfer or after it has exited: a lock is held only inside
\* the straight-line region it brackets, so a held lock is always released,
\* and under fair scheduling every worker that waits for a lock obtains one
C24_LockDiscipline ==
  /\ [](LockDiscipline)
  /\ \A t \in 1 .. MaxThreads : WaitsForLock(t) ~> HoldsLock(t)
\* two workers, one inside header_cb with header_cb_lock held while the
\* other is blocked on the same lock
C24_Witness ==
  /\ mode = "parallel" /\ num_threads = 2
  /\ header_cb_lock = 1 /\ pc[1] = "header_cb_set" /\ pc[2] = "header_cb"


\* a request of worker or context t is outstanding; its response is complete
\* and not decoded yet
RequestOutstanding(t) ==
  pc[t] \in {"perform", "header_cb", "header_cb_set", "perform_body"}
ResultUndecoded(t) == pc[t] \in {"read_png_file", "done"}
\* the step issues a request of t: in paster_parallel.c after get_url, in
\* paster_nbio.c from init_curl, on a new context or on one just harvested
RequestIssued(t) ==
  /\ pc[t] \in {"get_url_inc", "idle", "done"}
  /\ pc'[t] = "perform"
\* the first len bytes of the buffer of t are the body of the response whose
\* header this attempt of t received, and the next write goes after them
HoldsOwnResponse(t) ==
  /\ bd[t].pos = bd[t].len
  /\ \A p \in BufIdx : p < bd[t].len => bd[t].buf[p] = BodyByte(hd[t], p)
BufferPerAttempt ==
  \A t \in Threads :
    /\ pc[t] \in {"perform", "header_cb", "header_cb_set"}
         => bd[t].len = 0 /\ bd[t].pos = 0
    /\ pc[t] \in {"perform_body", "read_png_file", "done"} => HoldsOwnResponse(t)
\* a step changes the buffer of t in one of three ways: the reset when a
\* request of t is issued, a write of the outstanding transfer of t that keeps
\* the bytes already received, or the decode moving pos over them
BufferStep ==
  \A t \in Threads :
    /\ (pc'[t] = "perform" /\ pc[t] # "perform")
         => RequestIssued(t) /\ bd'[t].len = 0 /\ bd'[t].pos = 0
    /\ (RequestOutstanding(t) /\ RequestOutstanding(t)')
         => /\ bd'[t].len >= bd[t].len
            /\ \A p \in BufIdx : p < bd[t].len => bd'[t].buf[p] = bd[t].buf[p]
    /\ bd'[t] # bd[t]
         => \/ RequestIssued(t)
            \/ pc[t] = "perform_body" /\ pc'[t] = "perform_body"
            \/ /\ ResultUndecoded(t) /\ ~RequestOutstanding(t)'
               /\ bd'[t].buf = bd[t].buf /\ bd'[t].len = bd[t].len

\* C25: every worker of paster_parallel.c and every context of paster_nbio.c
\* has one buffer and at most one request at a time: len and pos are set to 0
\* when a request is issued, which happens only when no request of the same
\* worker or context is outstanding and no result of it waits for the
\* decoder, and never in between; the transfer only appends; so the bytes
\* the decoder reads are the body of the response of the same attempt
C25_BufferExclusive ==
  /\ [](BufferPerAttempt)
  /\ [][BufferStep]_vars
\* a worker about to decode the body of fragment 1 in a buffer that held the
\* body of fragment 0, which the same worker composited on an earlier attempt
C25_Witness ==
  /\ num_threads = 1 /\ pc[1] \in {"read_png_file", "done"}
  /\ <<0, 0>> \in painted
  /\ hd[1] = 1 /\ bd[1].len = PngLen /\ bd[1].buf[0] = BodyByte(1, 0)
====
